---- MODULE Spec2Model ----
(***************************************************************************)
(* Document augmentation pipeline of the Summarizer server: the AI         *)
(* orchestrator with its Gemini -> OpenRouter fallback (aiService.ts), the *)
(* document controller handlers (documentController.ts) and the document   *)
(* service (documentService.ts) over the documents / document_embeddings   *)
(* tables.                                                                 *)
(*                                                                         *)
(* Strings are sequences of one-character strings, so that trim, split and *)
(* length are computed as the code computes them.  null, a thrown error    *)
(* and "no value yet" are one-element sequences holding a word that is not *)
(* a character.                                                            *)
(***************************************************************************)
EXTENDS Integers, Sequences, FiniteSets, TLC

\* ------------------------------------------------------------------ bounds
MaxDocs == 2
MaxRequests == 3
MaxRows == 4

\* ------------------------------------------------------- program constants
MaxSearchDocs == 5
MaxTextLen == 5
MaxChunkSize == 3
MaxSessions == 2

chunkSize == 1000

\* ------------------------------------------------------------------ values
NULL == <<"null">>
THROW == <<"throw">>
NONE == <<"none">>

PENDING == <<"PENDING">>
PROCESSING == <<"PROCESSING">>
COMPLETED == <<"COMPLETED">>
FAILED == <<"FAILED">>
DocumentStatus == {PENDING, PROCESSING, COMPLETED, FAILED}

Users == {1, 2}

Whitespace == {" ", "\n", "\t"}
Delims == {".", "!", "?"}

\* JavaScript truthiness of an optional string: null and "" are falsy.
Falsy(s) == s = NULL \/ s = <<>>

Rep(c, n) == [k \in 1..n |-> c]

\* ------------------------------------------------------------ String.trim
RECURSIVE FirstNonWs(_, _)
FirstNonWs(s, k) ==
  IF k > Len(s) THEN k
  ELSE IF s[k] \notin Whitespace THEN k ELSE FirstNonWs(s, k + 1)

RECURSIVE LastNonWs(_, _)
LastNonWs(s, k) ==
  IF k < 1 THEN k
  ELSE IF s[k] \notin Whitespace THEN k ELSE LastNonWs(s, k - 1)

trim(s) == SubSeq(s, FirstNonWs(s, 1), LastNonWs(s, Len(s)))

\* ------------------------------------- text.split(/[.!?]+/).filter(trim)
\* The pieces between runs of terminators are the maximal runs of
\* non-terminator characters; the empty pieces split() also yields are
\* removed by the filter, as are the pieces made of whitespace only.
SentenceStarts(t) ==
  {k \in 1..Len(t) : t[k] \notin Delims /\ (k = 1 \/ t[k - 1] \in Delims)}

SentenceEnds(t) ==
  {k \in 1..Len(t) : t[k] \notin Delims /\ (k = Len(t) \/ t[k + 1] \in Delims)}

RECURSIVE SortedSeq(_)
SortedSeq(S) ==
  IF S = {} THEN <<>>
  ELSE LET m == CHOOSE x \in S : \A y \in S : x <= y
       IN <<m>> \o SortedSeq(S \ {m})

splitSentences(t) ==
  LET ss == SortedSeq(SentenceStarts(t))
      es == SortedSeq(SentenceEnds(t))
      pieces == [k \in 1..Len(ss) |-> SubSeq(t, ss[k], es[k])]
  IN SelectSeq(pieces, LAMBDA s : Len(trim(s)) > 0)

\* --------------------------------------------- DocumentService.chunkText
\* Mutant: closing a chunk starts the next one empty, so the sentence that
\* did not fit is lost.
RECURSIVE chunkLoop_DropsSentence(_, _, _, _, _)
chunkLoop_DropsSentence(sentences, k, currentChunk, chunks, size) ==
  IF k > Len(sentences)
  THEN IF trim(currentChunk) # <<>>
       THEN Append(chunks, trim(currentChunk))
       ELSE chunks
  ELSE LET sentence == sentences[k]
       IN IF Len(currentChunk) + Len(sentence) > size /\ Len(currentChunk) > 0
          THEN chunkLoop_DropsSentence(sentences, k + 1, <<>>,
                         Append(chunks, trim(currentChunk)), size)
          ELSE chunkLoop_DropsSentence(sentences, k + 1,
                         currentChunk
                           \o (IF currentChunk # <<>> THEN <<".", " ">> ELSE <<>>)
                           \o sentence,
                         chunks, size)

\* Mutant: the chunks are pushed as accumulated, without trim().
RECURSIVE chunkLoop_NoTrim(_, _, _, _, _)
chunkLoop_NoTrim(sentences, k, currentChunk, chunks, size) ==
  IF k > Len(sentences)
  THEN IF trim(currentChunk) # <<>>
       THEN Append(chunks, currentChunk)
       ELSE chunks
  ELSE LET sentence == sentences[k]
       IN IF Len(currentChunk) + Len(sentence) > size /\ Len(currentChunk) > 0
          THEN chunkLoop_NoTrim(sentences, k + 1, sentence,
                         Append(chunks, currentChunk), size)
          ELSE chunkLoop_NoTrim(sentences, k + 1,
                         currentChunk
                           \o (IF currentChunk # <<>> THEN <<".", " ">> ELSE <<>>)
                           \o sentence,
                         chunks, size)

RECURSIVE chunkLoop(_, _, _, _, _)
chunkLoop(sentences, k, currentChunk, chunks, size) ==
  IF k > Len(sentences)
  THEN IF trim(currentChunk) # <<>>
       THEN Append(chunks, trim(currentChunk))
       ELSE chunks
  ELSE LET sentence == sentences[k]
       IN IF Len(currentChunk) + Len(sentence) > size /\ Len(currentChunk) > 0
          THEN chunkLoop(sentences, k + 1, sentence,
                         Append(chunks, trim(currentChunk)), size)
          ELSE chunkLoop(sentences, k + 1,
                         currentChunk
                           \o (IF currentChunk # <<>> THEN <<".", " ">> ELSE <<>>)
                           \o sentence,
                         chunks, size)

chunkText(text, size) == chunkLoop(splitSentences(text), 1, <<>>, <<>>, size)

\* ------------------------------------------------------------- AIService
\* Mutant: only a thrown error makes the call fall through to OpenRouter;
\* whatever Gemini returns, empty or not, is returned.
summarizeText_NoEmptyCheck(g, o) ==
  IF g # THROW
  THEN [ret |-> g, calls |-> <<"gemini">>]
  ELSE IF o # THROW /\ trim(o) # <<>>
       THEN [ret |-> o, calls |-> <<"gemini", "openrouter">>]
       ELSE [ret |-> THROW, calls |-> <<"gemini", "openrouter">>]

\* g and o are what tryGemini and tryOpenRouter do for the prompt of this
\* call: THROW, or the returned string (already "" when the provider sent
\* no content).  calls lists the providers that were actually invoked.
summarizeText(g, o) ==
  IF g # THROW /\ trim(g) # <<>>
  THEN [ret |-> g, calls |-> <<"gemini">>]
  ELSE IF o # THROW /\ trim(o) # <<>>
       THEN [ret |-> o, calls |-> <<"gemini", "openrouter">>]
       ELSE [ret |-> THROW, calls |-> <<"gemini", "openrouter">>]

\* Mutant: OpenRouter is asked first, Gemini as the fallback.
chatWithDocument_OpenRouterFirst(g, o) ==
  IF o # THROW /\ trim(o) # <<>>
  THEN [ret |-> o, calls |-> <<"openrouter">>]
  ELSE IF g # THROW /\ trim(g) # <<>>
       THEN [ret |-> g, calls |-> <<"openrouter", "gemini">>]
       ELSE [ret |-> THROW, calls |-> <<"openrouter", "gemini">>]

\* Mutant: when both providers fail the empty string is returned.
chatWithDocument_ReturnsEmpty(g, o) ==
  IF g # THROW /\ trim(g) # <<>>
  THEN [ret |-> g, calls |-> <<"gemini">>]
  ELSE IF o # THROW /\ trim(o) # <<>>
       THEN [ret |-> o, calls |-> <<"gemini", "openrouter">>]
       ELSE [ret |-> <<>>, calls |-> <<"gemini", "openrouter">>]

chatWithDocument(g, o) ==
  IF g # THROW /\ trim(g) # <<>>
  THEN [ret |-> g, calls |-> <<"gemini">>]
  ELSE IF o # THROW /\ trim(o) # <<>>
       THEN [ret |-> o, calls |-> <<"gemini", "openrouter">>]
       ELSE [ret |-> THROW, calls |-> <<"gemini", "openrouter">>]

\* result.split(',') : the pieces between the commas, the empty ones kept.
RECURSIVE splitComma(_, _, _)
splitComma(s, k, piece) ==
  IF k > Len(s) THEN <<piece>>
  ELSE IF s[k] = "," THEN <<piece>> \o splitComma(s, k + 1, <<>>)
  ELSE splitComma(s, k + 1, Append(piece, s[k]))

\* result.split(',').map(keyword => keyword.trim()).filter(Boolean)
keywords(result) ==
  LET pieces == splitComma(result, 1, <<>>)
      trimmed == [k \in 1..Len(pieces) |-> trim(pieces[k])]
  IN SelectSeq(trimmed, LAMBDA w : w # <<>>)

\* Mutant: when both providers fail the call throws, as summarizeText does.
generateKeywords_Throws(g, o) ==
  IF g # THROW /\ trim(g) # <<>>
  THEN [ret |-> keywords(g), calls |-> <<"gemini">>]
  ELSE IF o # THROW /\ trim(o) # <<>>
       THEN [ret |-> keywords(o), calls |-> <<"gemini", "openrouter">>]
       ELSE [ret |-> THROW, calls |-> <<"gemini", "openrouter">>]

\* generateKeywords: the same chain, the result cut into keywords, and the
\* empty array when neither provider gives a result that is not blank.
generateKeywords(g, o) ==
  IF g # THROW /\ trim(g) # <<>>
  THEN [ret |-> keywords(g), calls |-> <<"gemini">>]
  ELSE IF o # THROW /\ trim(o) # <<>>
       THEN [ret |-> keywords(o), calls |-> <<"gemini", "openrouter">>]
       ELSE [ret |-> <<>>, calls |-> <<"gemini", "openrouter">>]

\* e is what openai.embeddings.create does: THROW, NULL for a response
\* without data[0].embedding, or the vector (its numbers written as words).
generateEmbedding(e) ==
  IF e # THROW /\ e # NULL THEN e ELSE <<>>

\* ------------------------------------------------------------ environment
\* What a completion provider can do for one call.
ProviderOutcomes == {THROW, <<>>, <<" ">>, <<"x">>, <<" ", "y">>}

\* A provider attempt that threw or came back with the empty string.
Failed(r) == r = THROW \/ r = <<>>

\* What one call of summarizeText can come to, over everything the two
\* providers can do: the value returned (THROW for the error), and whether
\* both attempts failed.
SummarizeOutcomes ==
  {[ret |-> summarizeText(g, o).ret, allFailed |-> Failed(g) /\ Failed(o)] :
     g \in ProviderOutcomes, o \in ProviderOutcomes}

\* What the embeddings endpoint can do for one call.
EmbedOutcomes == {THROW, NULL, <<"0.1">>}

\* What one call of generateEmbedding can come to: the value returned, and
\* whether the provider call failed.
EmbedResults ==
  {[vec |-> generateEmbedding(e), failed |-> e \in {THROW, NULL}] :
     e \in EmbedOutcomes}

ShortText == <<"H", "i", ".">>
LongText ==
  Rep("a", chunkSize \div 2) \o <<".", " ">> \o Rep("b", chunkSize \div 2) \o <<".">>

\* What FileService.extractTextFromFile can do for an uploaded file.
ExtractOutcomes == {THROW, <<>>, ShortText, LongText}

Titles == {<<"q">>}

DocIds == 1..MaxDocs

\* ------------------------------------------------------------------ state
VARIABLES
  docs,        \* documents table: id -> row
  nextId,      \* documents.id SERIAL
  embeddings,  \* document_embeddings table, in insertion order
  proc,        \* the requests in flight, one per slot
  started,     \* number of requests received so far
  faulty,      \* whether storage writes may fail
  ai,          \* last call of a service method checked on its own
  sessions,    \* chat_sessions table: id -> row
  messages     \* chat_messages table, in insertion order

vars == <<docs, nextId, embeddings, proc, started, faulty, ai, sessions, messages>>

\* A request slot: where the handler stands (pc), the request (op, user,
\* doc, title), and the handler's locals: text is the extracted text (THROW
\* when the extractor threw), was the status of the row the handler read or
\* created, ret what summarizeText returned (THROW for its error), chunks and
\* i the loop of generateAndStoreEmbeddings, code the HTTP status answered.
\* allFailed and efail remember whether both completion providers failed
\* (threw or returned "") and whether an embedding call failed.
Idle ==
  [pc |-> "idle", op |-> "none", user |-> 0, doc |-> 0, title |-> NULL,
   text |-> NULL, was |-> NONE, ret |-> NONE, allFailed |-> FALSE,
   chunks |-> <<>>, i |-> 0, efail |-> FALSE, code |-> 0,
   sessionId |-> 0, content |-> NULL]

NoCall == [fn |-> "none", gem |-> NONE, opr |-> NONE, ret |-> NONE,
           calls |-> <<>>, prev |-> NONE]

\* Outcomes of one storage write of the augmentation steps (the UPDATE of a
\* document, the INSERT of an embedding row): it always succeeds unless
\* storage is faulty.
DbOk == IF faulty THEN BOOLEAN ELSE {TRUE}

\* The slots of the requests in flight.
Procs == DOMAIN proc

InitStore ==
  /\ docs = << >>
  /\ nextId = 1
  /\ embeddings = << >>
  /\ started = 0
  /\ ai = NoCall
  /\ sessions = << >>
  /\ messages = << >>

\* One request at a time (the single-writer assumption), reliable storage.
Init == InitStore /\ proc = <<Idle>> /\ faulty = FALSE

\* One request at a time, storage writes may fail.
InitFaulty == InitStore /\ proc = <<Idle>> /\ faulty = TRUE

\* Two requests may be in flight together, reliable storage.
InitConcurrent == InitStore /\ proc = <<Idle, Idle>> /\ faulty = FALSE

\* --------------------------------------------------- DocumentService rows
\* Mutant: every field of the data is written, the absent ones as null.
updateRow_WritesNulls(row, data) ==
  [row EXCEPT
     !.title = data.title,
     !.extractedText = data.extractedText,
     !.summary = data.summary,
     !.status = data.status]

\* DocumentService.update: only the fields that are neither undefined nor
\* null are written.  data has all four keys, NULL for an absent one.
updateRow(row, data) ==
  [row EXCEPT
     !.title = IF data.title # NULL THEN data.title ELSE @,
     !.extractedText = IF data.extractedText # NULL THEN data.extractedText ELSE @,
     !.summary = IF data.summary # NULL THEN data.summary ELSE @,
     !.status = IF data.status # NULL THEN data.status ELSE @]

NoData == [title |-> NULL, extractedText |-> NULL, summary |-> NULL, status |-> NULL]

\* The UPDATE finds a row (and so does not throw) iff the id exists and the
\* write is not hit by a storage fault.
updateOk(id, ok) == ok /\ id \in DOMAIN docs

update(id, data) == [docs EXCEPT ![id] = updateRow(@, data)]

\* Mutant: the lookup does not filter on user_id.
findByUserIdAndDocumentId_AnyOwner(u, d) ==
  IF d \in DOMAIN docs THEN {docs[d]} ELSE {}

\* The queries return result.rows as a set of at most one row.
\* findByUserIdAndDocumentId: WHERE id = $1 AND user_id = $2
findByUserIdAndDocumentId(u, d) ==
  IF d \in DOMAIN docs /\ docs[d].userId = u THEN {docs[d]} ELSE {}

findById(d) == IF d \in DOMAIN docs THEN {docs[d]} ELSE {}

\* A request is taken by the first free slot.
Free(p) == proc[p].pc \in {"idle", "done"}

CanStart(p) ==
  /\ Free(p)
  /\ \A q \in Procs : q < p => ~Free(q)
  /\ started < MaxRequests

Done(rec, c) == [rec EXCEPT !.pc = "done", !.code = c]

\* ------------------------------------------- DocumentController.upload
\* DocumentService.create: INSERT ... status PENDING, extracted_text
\* extractedText || null.
create(id, u, t, x) ==
  id :> [userId |-> u, title |-> t,
         extractedText |-> IF Falsy(x) THEN NULL ELSE x,
         summary |-> NULL, status |-> PENDING]

\* The handler up to its first write after the INSERT.  Users are
\* interchangeable: user 1 names the one who uploads the first document.  The file passed
\* validateFile; x is what extractTextFromFile does, r what the
\* summarizeText call comes to.  A throw of the extractor lands in the outer catch: 500.  Otherwise the row is inserted and
\* aiService.summarizeText(extractedText) runs inside the inner try; its
\* outcome decides between the update and the catch.
StartUpload(p, u, t, x) ==
  /\ CanStart(p)
  /\ nextId <= MaxDocs
  /\ nextId = 1 => u = 1
  /\ started' = started + 1
  /\ LET rec == [Idle EXCEPT !.op = "upload", !.user = u, !.title = t]
     IN IF x = THROW
        THEN /\ proc' = [proc EXCEPT ![p] = Done([rec EXCEPT !.text = THROW], 500)]
             /\ UNCHANGED <<docs, nextId>>
        ELSE \E r \in SummarizeOutcomes :
               /\ docs' = docs @@ create(nextId, u, t, x)
               /\ nextId' = nextId + 1
               /\ proc' = [proc EXCEPT ![p] =
                    [rec EXCEPT !.doc = nextId, !.text = x,
                                !.was = PENDING,
                                !.ret = r.ret,
                                !.allFailed = r.allFailed,
                                !.pc = IF r.ret = THROW THEN "catch" ELSE "update"]]
  /\ UNCHANGED <<embeddings, faulty, ai, sessions, messages>>

\* Mutant: the update after the summary writes the summary but leaves the
\* status as it was.
UploadUpdate_SummaryOnly(p) ==
  /\ proc[p].pc = "update"
  /\ proc[p].op = "upload"
  /\ \E ok \in DbOk :
       IF updateOk(proc[p].doc, ok)
       THEN /\ docs' = update(proc[p].doc, [NoData EXCEPT !.summary = proc[p].ret])
            /\ proc' = [proc EXCEPT ![p] = Done(@, 201)]
       ELSE /\ proc' = [proc EXCEPT ![p].pc = "catch"]
            /\ UNCHANGED docs
  /\ UNCHANGED <<nextId, embeddings, started, faulty, ai, sessions, messages>>

\* Mutant: the response reports the status of the updated row.
UploadUpdate_ReportsStored(p) ==
  /\ proc[p].pc = "update"
  /\ proc[p].op = "upload"
  /\ \E ok \in DbOk :
       IF updateOk(proc[p].doc, ok)
       THEN /\ docs' = update(proc[p].doc,
                 [NoData EXCEPT !.summary = proc[p].ret, !.status = COMPLETED])
            /\ proc' = [proc EXCEPT ![p] = Done([@ EXCEPT !.was = COMPLETED], 201)]
       ELSE /\ proc' = [proc EXCEPT ![p].pc = "catch"]
            /\ UNCHANGED docs
  /\ UNCHANGED <<nextId, embeddings, started, faulty, ai, sessions, messages>>

\* documentService.update(document.id, { summary, status: COMPLETED })
UploadUpdate(p) ==
  /\ proc[p].pc = "update"
  /\ proc[p].op = "upload"
  /\ \E ok \in DbOk :
       IF updateOk(proc[p].doc, ok)
       THEN /\ docs' = update(proc[p].doc,
                 [NoData EXCEPT !.summary = proc[p].ret, !.status = COMPLETED])
            /\ proc' = [proc EXCEPT ![p] = Done(@, 201)]
       ELSE /\ proc' = [proc EXCEPT ![p].pc = "catch"]
            /\ UNCHANGED docs
  /\ UNCHANGED <<nextId, embeddings, started, faulty, ai, sessions, messages>>

\* Mutant: the catch stores an empty summary along with the status.
UploadCatch_EmptySummary(p) ==
  /\ proc[p].pc = "catch"
  /\ \E ok \in DbOk :
       IF updateOk(proc[p].doc, ok)
       THEN /\ docs' = update(proc[p].doc,
                 [NoData EXCEPT !.summary = <<>>, !.status = FAILED])
            /\ proc' = [proc EXCEPT ![p] = Done(@, 201)]
       ELSE /\ proc' = [proc EXCEPT ![p] = Done(@, 500)]
            /\ UNCHANGED docs
  /\ UNCHANGED <<nextId, embeddings, started, faulty, ai, sessions, messages>>

\* catch (summaryError): documentService.update(document.id, { status: FAILED });
\* when that update throws too, the outer catch answers 500.
UploadCatch(p) ==
  /\ proc[p].pc = "catch"
  /\ \E ok \in DbOk :
       IF updateOk(proc[p].doc, ok)
       THEN /\ docs' = update(proc[p].doc, [NoData EXCEPT !.status = FAILED])
            /\ proc' = [proc EXCEPT ![p] = Done(@, 201)]
       ELSE /\ proc' = [proc EXCEPT ![p] = Done(@, 500)]
            /\ UNCHANGED docs
  /\ UNCHANGED <<nextId, embeddings, started, faulty, ai, sessions, messages>>

\* ---------------------------------------- DocumentController.summarize
\* Mutant: the check of extractedText is missing.
StartSummarize_NoTextCheck(p, u, d) ==
  /\ CanStart(p)
  /\ started' = started + 1
  /\ LET rec == [Idle EXCEPT !.op = "summarize", !.user = u, !.doc = d]
     IN IF findByUserIdAndDocumentId(u, d) = {}
        THEN proc' = [proc EXCEPT ![p] = Done(rec, 404)]
        ELSE \E r \in SummarizeOutcomes :
               LET called == [rec EXCEPT !.text = docs[d].extractedText,
                                         !.was = docs[d].status,
                                         !.ret = r.ret,
                                         !.allFailed = r.allFailed]
               IN proc' = [proc EXCEPT ![p] =
                    IF r.ret = THROW THEN Done(called, 500)
                    ELSE [called EXCEPT !.pc = "update"]]
  /\ UNCHANGED <<docs, nextId, embeddings, faulty, ai, sessions, messages>>

\* The handler up to its update: the ownership lookup (404), the check of
\* extractedText (400), then aiService.summarizeText(document.extractedText),
\* whose throw goes to the handler's catch (500).
StartSummarize(p, u, d) ==
  /\ CanStart(p)
  /\ started' = started + 1
  /\ LET rec == [Idle EXCEPT !.op = "summarize", !.user = u, !.doc = d]
     IN IF findByUserIdAndDocumentId(u, d) = {}
        THEN proc' = [proc EXCEPT ![p] = Done(rec, 404)]
        ELSE IF Falsy(docs[d].extractedText)
        THEN proc' = [proc EXCEPT ![p] = Done(rec, 400)]
        ELSE \E r \in SummarizeOutcomes :
               LET called == [rec EXCEPT !.text = docs[d].extractedText,
                                         !.was = docs[d].status,
                                         !.ret = r.ret,
                                         !.allFailed = r.allFailed]
               IN proc' = [proc EXCEPT ![p] =
                    IF r.ret = THROW THEN Done(called, 500)
                    ELSE [called EXCEPT !.pc = "update"]]
  /\ UNCHANGED <<docs, nextId, embeddings, faulty, ai, sessions, messages>>

\* Mutant: a summary already stored is kept (the first write wins); only
\* the status is written then.
SummarizeUpdate_KeepsFirst(p) ==
  /\ proc[p].pc = "update"
  /\ proc[p].op = "summarize"
  /\ \E ok \in DbOk :
       IF updateOk(proc[p].doc, ok)
       THEN /\ docs' = update(proc[p].doc,
                 [NoData EXCEPT
                    !.summary = IF docs[proc[p].doc].summary = NULL
                                THEN proc[p].ret ELSE NULL,
                    !.status = COMPLETED])
            /\ proc' = [proc EXCEPT ![p] = Done(@, 200)]
       ELSE /\ proc' = [proc EXCEPT ![p] = Done(@, 500)]
            /\ UNCHANGED docs
  /\ UNCHANGED <<nextId, embeddings, started, faulty, ai, sessions, messages>>

\* Mutant: a document that is FAILED is not updated by the re-summarize.
SummarizeUpdate_SkipsFailed(p) ==
  /\ proc[p].pc = "update"
  /\ proc[p].op = "summarize"
  /\ \E ok \in DbOk :
       IF updateOk(proc[p].doc, ok) /\ docs[proc[p].doc].status # FAILED
       THEN /\ docs' = update(proc[p].doc,
                 [NoData EXCEPT !.summary = proc[p].ret, !.status = COMPLETED])
            /\ proc' = [proc EXCEPT ![p] = Done(@, 200)]
       ELSE /\ proc' = [proc EXCEPT ![p] = Done(@, 500)]
            /\ UNCHANGED docs
  /\ UNCHANGED <<nextId, embeddings, started, faulty, ai, sessions, messages>>

\* documentService.update(documentId, { summary, status: COMPLETED })
SummarizeUpdate(p) ==
  /\ proc[p].pc = "update"
  /\ proc[p].op = "summarize"
  /\ \E ok \in DbOk :
       IF updateOk(proc[p].doc, ok)
       THEN /\ docs' = update(proc[p].doc,
                 [NoData EXCEPT !.summary = proc[p].ret, !.status = COMPLETED])
            /\ proc' = [proc EXCEPT ![p] = Done(@, 200)]
       ELSE /\ proc' = [proc EXCEPT ![p] = Done(@, 500)]
            /\ UNCHANGED docs
  /\ UNCHANGED <<nextId, embeddings, started, faulty, ai, sessions, messages>>

\* ------------------------------- DocumentController.generateEmbeddings
StartGenerate(p, u, d) ==
  /\ CanStart(p)
  /\ started' = started + 1
  /\ LET rec == [Idle EXCEPT !.op = "embeddings", !.user = u, !.doc = d]
         found == findByUserIdAndDocumentId(u, d)
     IN proc' = [proc EXCEPT ![p] =
          IF found = {} THEN Done(rec, 404)
          ELSE IF Falsy(docs[d].extractedText) THEN Done(rec, 400)
          ELSE [rec EXCEPT !.pc = "genFind"]]
  /\ UNCHANGED <<docs, nextId, embeddings, faulty, ai, sessions, messages>>

\* Mutant: the catch puts the document back to PENDING.
GenCatch_ResetsPending(pr, p, ok) ==
  /\ docs' = IF updateOk(pr[p].doc, ok)
             THEN update(pr[p].doc, [NoData EXCEPT !.status = PENDING])
             ELSE docs
  /\ proc' = [pr EXCEPT ![p] = Done(@, 500)]

\* The catch of generateAndStoreEmbeddings: this.update(documentId,
\* { status: FAILED }) on the table as it stands, then the rethrow; the
\* controller answers 500 whether or not that update went through.
GenCatch(pr, p, ok) ==
  /\ docs' = IF updateOk(pr[p].doc, ok)
             THEN update(pr[p].doc, [NoData EXCEPT !.status = FAILED])
             ELSE docs
  /\ proc' = [pr EXCEPT ![p] = Done(@, 500)]

\* DocumentService.generateAndStoreEmbeddings, up to the loop: findById,
\* the throw when there is no row or no text, chunkText.
GenFind(p) ==
  /\ proc[p].pc = "genFind"
  /\ IF findById(proc[p].doc) = {} \/ Falsy(docs[proc[p].doc].extractedText)
     THEN \E ok \in DbOk : GenCatch(proc, p, ok)
     ELSE LET cs == chunkText(docs[proc[p].doc].extractedText, chunkSize)
          IN /\ proc' = [proc EXCEPT ![p].chunks = cs, ![p].i = 0,
                                     ![p].pc = IF Len(cs) = 0 THEN "genComplete"
                                               ELSE "embed"]
             /\ UNCHANGED docs
  /\ UNCHANGED <<nextId, embeddings, started, faulty, ai, sessions, messages>>

\* Mutant: the rows are numbered from 1.
insertEmbedding_FromOne(d, k, chunk, embedding) ==
  Append(embeddings,
         [documentId |-> d, chunkIndex |-> k + 1, chunkText |-> chunk,
          embedding |-> embedding])

\* The INSERT into document_embeddings; document_id references documents(id).
insertEmbedding(d, k, chunk, embedding) ==
  Append(embeddings,
         [documentId |-> d, chunkIndex |-> k, chunkText |-> chunk,
          embedding |-> embedding])

insertOk(d, ok) == ok /\ d \in DOMAIN docs

\* Mutant: a failed INSERT is skipped and the loop goes on.
GenEmbed_SkipsFailedInsert(p) ==
  /\ proc[p].pc = "embed"
  /\ Len(embeddings) < MaxRows
  /\ \E r \in EmbedResults, ok \in DbOk :
       /\ embeddings' = IF insertOk(proc[p].doc, ok)
                        THEN insertEmbedding(proc[p].doc, proc[p].i,
                                             proc[p].chunks[proc[p].i + 1], r.vec)
                        ELSE embeddings
       /\ proc' = [proc EXCEPT
            ![p].efail = @ \/ r.failed,
            ![p].i = @ + 1,
            ![p].pc = IF proc[p].i + 1 < Len(proc[p].chunks)
                      THEN "embed" ELSE "genComplete"]
       /\ UNCHANGED docs
  /\ UNCHANGED <<nextId, started, faulty, ai, sessions, messages>>

\* One turn of the loop: generateEmbedding(chunk), then the INSERT of row i;
\* a failed INSERT goes to the catch.
GenEmbed(p) ==
  /\ proc[p].pc = "embed"
  /\ Len(embeddings) < MaxRows
  /\ \E r \in EmbedResults, ok \in DbOk :
       IF insertOk(proc[p].doc, ok)
       THEN /\ embeddings' = insertEmbedding(proc[p].doc, proc[p].i,
                                             proc[p].chunks[proc[p].i + 1], r.vec)
            /\ proc' = [proc EXCEPT
                 ![p].efail = @ \/ r.failed,
                 ![p].i = @ + 1,
                 ![p].pc = IF proc[p].i + 1 < Len(proc[p].chunks)
                           THEN "embed" ELSE "genComplete"]
            /\ UNCHANGED docs
       ELSE /\ \E ok2 \in DbOk : GenCatch([proc EXCEPT ![p].efail = @ \/ r.failed], p, ok2)
            /\ UNCHANGED embeddings
  /\ UNCHANGED <<nextId, started, faulty, ai, sessions, messages>>

\* Mutant: the update after the loop also writes an empty summary.
GenComplete_ClearsSummary(p) ==
  /\ proc[p].pc = "genComplete"
  /\ \E ok \in DbOk :
       IF updateOk(proc[p].doc, ok)
       THEN /\ docs' = update(proc[p].doc, [NoData EXCEPT !.summary = <<>>, !.status = COMPLETED])
            /\ proc' = [proc EXCEPT ![p] = Done(@, 200)]
       ELSE \E ok2 \in DbOk : GenCatch(proc, p, ok2)
  /\ UNCHANGED <<nextId, embeddings, started, faulty, ai, sessions, messages>>

\* this.update(documentId, { status: COMPLETED }) after the loop; when it
\* throws, the catch runs.
GenComplete(p) ==
  /\ proc[p].pc = "genComplete"
  /\ \E ok \in DbOk :
       IF updateOk(proc[p].doc, ok)
       THEN /\ docs' = update(proc[p].doc, [NoData EXCEPT !.status = COMPLETED])
            /\ proc' = [proc EXCEPT ![p] = Done(@, 200)]
       ELSE \E ok2 \in DbOk : GenCatch(proc, p, ok2)
  /\ UNCHANGED <<nextId, embeddings, started, faulty, ai, sessions, messages>>

\* ------------------------------------- DocumentController.deleteDocument
StartDelete(p, u, d) ==
  /\ CanStart(p)
  /\ started' = started + 1
  /\ LET rec == [Idle EXCEPT !.op = "delete", !.user = u, !.doc = d]
     IN proc' = [proc EXCEPT ![p] =
          IF findByUserIdAndDocumentId(u, d) = {} THEN Done(rec, 404)
          ELSE [rec EXCEPT !.pc = "delete"]]
  /\ UNCHANGED <<docs, nextId, embeddings, faulty, ai, sessions, messages>>

\* Mutant: the messages of the deleted document's sessions are left behind.
DoDelete_KeepsMessages(p) ==
  /\ proc[p].pc = "delete"
  /\ IF proc[p].doc \in DOMAIN docs
     THEN /\ docs' = [d \in DOMAIN docs \ {proc[p].doc} |-> docs[d]]
          /\ embeddings' = SelectSeq(embeddings,
                              LAMBDA r : r.documentId # proc[p].doc)
          /\ sessions' = [x \in {y \in DOMAIN sessions :
                                   sessions[y].documentId # proc[p].doc}
                            |-> sessions[x]]
          /\ UNCHANGED messages
          /\ proc' = [proc EXCEPT ![p] = Done(@, 200)]
     ELSE /\ proc' = [proc EXCEPT ![p] = Done(@, 500)]
          /\ UNCHANGED <<docs, embeddings, sessions, messages>>
  /\ UNCHANGED <<nextId, started, faulty, ai>>

\* DocumentService.delete: DELETE FROM documents WHERE id = $1.  The rows
\* that reference the document go with it: document_embeddings and
\* chat_sessions through document_id, chat_messages through the session
\* (ON DELETE CASCADE in each of the three tables).
DoDelete(p) ==
  /\ proc[p].pc = "delete"
  /\ IF proc[p].doc \in DOMAIN docs
     THEN /\ docs' = [d \in DOMAIN docs \ {proc[p].doc} |-> docs[d]]
          /\ embeddings' = SelectSeq(embeddings,
                              LAMBDA r : r.documentId # proc[p].doc)
          /\ sessions' = [x \in {y \in DOMAIN sessions :
                                   sessions[y].documentId # proc[p].doc}
                            |-> sessions[x]]
          /\ messages' = SelectSeq(messages,
                            LAMBDA m : sessions[m.sessionId].documentId # proc[p].doc)
          /\ proc' = [proc EXCEPT ![p] = Done(@, 200)]
     ELSE /\ proc' = [proc EXCEPT ![p] = Done(@, 500)]
          /\ UNCHANGED <<docs, embeddings, sessions, messages>>
  /\ UNCHANGED <<nextId, started, faulty, ai>>

\* ---------------------------------------- DocumentController.getDocument
GetDocument(p, u, d) ==
  /\ CanStart(p)
  /\ started' = started + 1
  /\ LET rec == [Idle EXCEPT !.op = "get", !.user = u, !.doc = d]
     IN proc' = [proc EXCEPT ![p] =
          IF findByUserIdAndDocumentId(u, d) = {} THEN Done(rec, 404)
          ELSE Done(rec, 200)]
  /\ UNCHANGED <<docs, nextId, embeddings, faulty, ai, sessions, messages>>

Next ==
  \/ \E p \in Procs, u \in Users, t \in Titles, x \in ExtractOutcomes :
       StartUpload(p, u, t, x)
  \/ \E p \in Procs : UploadUpdate(p)
  \/ \E p \in Procs : UploadCatch(p)
  \/ \E p \in Procs, u \in Users, d \in DocIds : StartSummarize(p, u, d)
  \/ \E p \in Procs : SummarizeUpdate(p)
  \/ \E p \in Procs, u \in Users, d \in DocIds : StartGenerate(p, u, d)
  \/ \E p \in Procs : GenFind(p)
  \/ \E p \in Procs : GenEmbed(p)
  \/ \E p \in Procs : GenComplete(p)
  \/ \E p \in Procs, u \in Users, d \in DocIds : StartDelete(p, u, d)
  \/ \E p \in Procs : DoDelete(p)
  \/ \E p \in Procs, u \in Users, d \in DocIds : GetDocument(p, u, d)

Spec == Init /\ [][Next]_vars

SpecFaulty == InitFaulty /\ [][Next]_vars

SpecConcurrent == InitConcurrent /\ [][Next]_vars

\* ------------------------------------------------ orchestrator on its own
\* One invocation of an AIService method with what the two providers do for
\* it; prev keeps what the invocation before returned.
Invocation(fn, g, o, r) ==
  [fn |-> fn, gem |-> g, opr |-> o, ret |-> r.ret, calls |-> r.calls,
   prev |-> ai.ret]

InvokeSummarizeText(g, o) ==
  /\ ai' = Invocation("summarizeText", g, o, summarizeText(g, o))
  /\ UNCHANGED <<docs, nextId, embeddings, proc, started, faulty, sessions, messages>>

InvokeChatWithDocument(g, o) ==
  /\ ai' = Invocation("chatWithDocument", g, o, chatWithDocument(g, o))
  /\ UNCHANGED <<docs, nextId, embeddings, proc, started, faulty, sessions, messages>>

\* What a completion provider can do for a keyword prompt.
KeywordOutcomes == {THROW, <<>>, <<" ">>, <<",">>, <<"x", ",", " ", "y">>}

InvokeGenerateKeywords(g, o) ==
  /\ ai' = Invocation("generateKeywords", g, o, generateKeywords(g, o))
  /\ UNCHANGED <<docs, nextId, embeddings, proc, started, faulty, sessions, messages>>

\* A call of generateEmbedding; e is what the embeddings.create call of
\* OpenRouter does for it.
InvokeGenerateEmbedding(e) ==
  /\ ai' = Invocation("generateEmbedding", NONE, e,
                      [ret |-> generateEmbedding(e), calls |-> <<"openrouter">>])
  /\ UNCHANGED <<docs, nextId, embeddings, proc, started, faulty, sessions, messages>>

NextAI ==
  \/ \E g \in ProviderOutcomes, o \in ProviderOutcomes : InvokeSummarizeText(g, o)
  \/ \E g \in ProviderOutcomes, o \in ProviderOutcomes : InvokeChatWithDocument(g, o)
  \/ \E e \in EmbedOutcomes : InvokeGenerateEmbedding(e)
  \/ \E g \in KeywordOutcomes, o \in KeywordOutcomes : InvokeGenerateKeywords(g, o)

SpecAI == Init /\ [][NextAI]_vars

\* --------------------------------------------------- chunkText on its own
\* The texts and chunk sizes chunkText is applied to: every text of up to
\* MaxTextLen characters over two letters, a terminator and a blank, with
\* every size up to MaxChunkSize, and one longer sample text with size 30.
TextChars == {"a", "b", ".", " "}

Texts == UNION {[1..n -> TextChars] : n \in 0..MaxTextLen}

SampleText ==
  Rep("A", 4) \o <<".", " ">> \o Rep("B", 27) \o <<".", " ">> \o Rep("C", 4) \o <<".">>

ChunkCalls ==
  {[text |-> t, size |-> n] : t \in Texts, n \in 1..MaxChunkSize}
    \cup {[text |-> SampleText, size |-> 30]}

\* One call of chunkText, a pure function: a behaviour applies it to one
\* input. sentences is the local of that name.
InvokeChunkText(c) ==
  /\ ai.fn = "none"
  /\ ai' = [fn |-> "chunkText", text |-> c.text, size |-> c.size,
            sentences |-> splitSentences(c.text),
            chunks |-> chunkText(c.text, c.size)]
  /\ UNCHANGED <<docs, nextId, embeddings, proc, started, faulty, sessions, messages>>

NextChunk == \E c \in ChunkCalls : InvokeChunkText(c)

SpecChunk == Init /\ [][NextChunk]_vars

\* ----------------------------------- DocumentService.searchSimilarDocuments
\* String.toLowerCase / SQL LOWER on the letters the model uses.
Lower(c) ==
  CASE c = "Q" -> "q"
    [] c = "H" -> "h"
    [] c = "Z" -> "z"
    [] OTHER -> c

toLowerCase(s) == [k \in 1..Len(s) |-> Lower(s[k])]

\* s LIKE '%q%' for a q without wildcards of its own.
Like(s, q) ==
  \E i \in 0..(Len(s) - Len(q)) : SubSeq(s, i + 1, i + Len(q)) = q

\* ORDER BY created_at DESC: documents.id is a SERIAL and created_at the
\* NOW() of the INSERT, so the newer document has the larger id.
RECURSIVE NewestFirst(_)
NewestFirst(S) ==
  IF S = {} THEN <<>>
  ELSE LET m == CHOOSE x \in S : \A y \in S : y <= x
       IN <<m>> \o NewestFirst(S \ {m})

\* Mutant: neither query filters on user_id.
searchSimilarDocuments_AnyOwner(userId, queryText, limit, ok) ==
  IF ~ok THEN <<>>
  ELSE
    LET searchPattern == toLowerCase(queryText)
        joined == {k \in 1..Len(embeddings) :
                     /\ embeddings[k].documentId \in DOMAIN docs
                     /\ \/ Like(toLowerCase(docs[embeddings[k].documentId].title),
                                searchPattern)
                        \/ Like(toLowerCase(embeddings[k].chunkText), searchPattern)}
        similar == NewestFirst({embeddings[k].documentId : k \in joined})
        documentIds == {similar[k] : k \in 1..(IF Len(similar) < limit
                                                THEN Len(similar) ELSE limit)}
    IN IF documentIds = {} THEN <<>>
       ELSE NewestFirst({d \in DOMAIN docs : d \in documentIds})

\* The ids of the documents returned, in the order returned.  ok says
\* whether the database runs the first query; when it throws (PostgreSQL
\* rejects a SELECT DISTINCT whose ORDER BY expression is not in the select
\* list) the catch returns [].  The first query joins the embedding rows
\* with their documents, keeps those of the user whose title or chunk text
\* contains the lower-cased query, and returns the distinct document ids,
\* newest first, cut at limit; the second reads those documents of the
\* user, newest first.
searchSimilarDocuments(userId, queryText, limit, ok) ==
  IF ~ok THEN <<>>
  ELSE
    LET searchPattern == toLowerCase(queryText)
        joined == {k \in 1..Len(embeddings) :
                     /\ embeddings[k].documentId \in DOMAIN docs
                     /\ docs[embeddings[k].documentId].userId = userId
                     /\ \/ Like(toLowerCase(docs[embeddings[k].documentId].title),
                                searchPattern)
                        \/ Like(toLowerCase(embeddings[k].chunkText), searchPattern)}
        similar == NewestFirst({embeddings[k].documentId : k \in joined})
        documentIds == {similar[k] : k \in 1..(IF Len(similar) < limit
                                                THEN Len(similar) ELSE limit)}
    IN IF documentIds = {} THEN <<>>
       ELSE NewestFirst({d \in DOMAIN docs :
                           d \in documentIds /\ docs[d].userId = userId})

\* The stores the search runs on: up to MaxSearchDocs documents uploaded by
\* the two users, each of one of these kinds, runs being the number of
\* generateEmbeddings runs completed on it.
SearchKinds ==
  {[userId |-> u, title |-> k.title, text |-> k.text, runs |-> k.runs] :
     u \in Users,
     k \in {[title |-> <<"Q">>, text |-> ShortText, runs |-> 0],
            [title |-> <<"Q">>, text |-> ShortText, runs |-> 1],
            [title |-> <<"z">>, text |-> <<"q", ".">>, runs |-> 2],
            [title |-> <<"z">>, text |-> ShortText, runs |-> 1]}}

\* The documents row of an uploaded and summarized document of kind k.
SearchRow(k) ==
  [userId |-> k.userId, title |-> k.title, extractedText |-> k.text,
   summary |-> <<"x">>, status |-> COMPLETED]

\* The embedding rows one run inserts for document d of kind k.
RunRows(d, k) ==
  LET chunks == chunkText(k.text, chunkSize)
  IN [i \in 1..Len(chunks) |->
        [documentId |-> d, chunkIndex |-> i - 1, chunkText |-> chunks[i],
         embedding |-> <<"0.1">>]]

RECURSIVE SearchEmbeddings(_, _)
SearchEmbeddings(kinds, d) ==
  IF d > Len(kinds) THEN <<>>
  ELSE (IF kinds[d].runs >= 1 THEN RunRows(d, kinds[d]) ELSE <<>>)
       \o (IF kinds[d].runs >= 2 THEN RunRows(d, kinds[d]) ELSE <<>>)
       \o SearchEmbeddings(kinds, d + 1)

InitSearch ==
  /\ \E n \in 0..MaxSearchDocs :
       \E kinds \in [1..n -> SearchKinds] :
         /\ docs = [d \in 1..n |-> SearchRow(kinds[d])]
         /\ embeddings = SearchEmbeddings(kinds, 1)
         /\ nextId = n + 1
  /\ started = 0
  /\ ai = NoCall
  /\ proc = <<Idle>>
  /\ faulty = FALSE
  /\ sessions = << >>
  /\ messages = << >>

SearchQueries == {<<"Q">>}

\* parseInt(req.body.limit) || 5
SearchLimits == {2, 5}

\* DocumentController.searchSimilar: one search, which reads and writes
\* nothing else.
SearchSimilar(u, q, limit, ok) ==
  /\ ai.fn = "none"
  /\ ai' = [fn |-> "searchSimilarDocuments", userId |-> u, queryText |-> q,
            limit |-> limit, ok |-> ok,
            results |-> searchSimilarDocuments(u, q, limit, ok)]
  /\ UNCHANGED <<docs, nextId, embeddings, proc, started, faulty, sessions, messages>>

NextSearch ==
  \E u \in Users, q \in SearchQueries, limit \in SearchLimits, ok \in BOOLEAN :
    SearchSimilar(u, q, limit, ok)

SpecSearch == InitSearch /\ [][NextSearch]_vars

\* ------------------------------------------- deleteDocument on its own
\* The stores a delete runs on: up to MaxDocs documents, each of one of
\* these kinds: runs is the number of generateEmbeddings runs completed on
\* it, chats the number of chat sessions its owner opened on it, msgs the
\* number of messages sent in each of them.
DeleteKinds ==
  {[userId |-> u, runs |-> k.runs, chats |-> k.chats, msgs |-> k.msgs] :
     u \in Users,
     k \in {[runs |-> 0, chats |-> 0, msgs |-> 0],
            [runs |-> 0, chats |-> 1, msgs |-> 0],
            [runs |-> 1, chats |-> 1, msgs |-> 1],
            [runs |-> 1, chats |-> 2, msgs |-> 1]}}

DeleteRow(k) ==
  [userId |-> k.userId, title |-> <<"q">>, extractedText |-> ShortText,
   summary |-> <<"x">>, status |-> COMPLETED]

\* chatService.createSession rows of document d, chats of them.
RECURSIVE DeleteSessions(_, _)
DeleteSessions(kinds, d) ==
  IF d > Len(kinds) THEN <<>>
  ELSE [j \in 1..kinds[d].chats |-> [userId |-> kinds[d].userId, documentId |-> d,
                                 updatedAt |-> 0]]
       \o DeleteSessions(kinds, d + 1)

\* chatService.sendMessage rows: msgs per session.
RECURSIVE DeleteMessages(_, _, _)
DeleteMessages(kinds, ss, x) ==
  IF x > Len(ss) THEN <<>>
  ELSE [j \in 1..kinds[ss[x].documentId].msgs |->
          [sessionId |-> x, message |-> <<"m">>, response |-> <<"x">>]]
       \o DeleteMessages(kinds, ss, x + 1)

InitDelete ==
  /\ \E n \in 1..MaxDocs :
       \E kinds \in [1..n -> DeleteKinds] :
         /\ docs = [d \in 1..n |-> DeleteRow(kinds[d])]
         /\ embeddings =
              SearchEmbeddings([d \in 1..n |->
                 [text |-> ShortText, runs |-> kinds[d].runs]], 1)
         /\ sessions = DeleteSessions(kinds, 1)
         /\ messages = DeleteMessages(kinds, DeleteSessions(kinds, 1), 1)
         /\ nextId = n + 1
  /\ started = 0
  /\ ai = NoCall
  /\ proc = <<Idle>>
  /\ faulty = FALSE

NextDelete ==
  \/ \E p \in Procs, u \in Users, d \in DocIds : StartDelete(p, u, d)
  \/ \E p \in Procs : DoDelete(p)

SpecDelete == InitDelete /\ [][NextDelete]_vars

\* ------------------------------------------------- concurrent summarize
\* Summarize requests, two of which may be in flight together, on a store
\* that holds one uploaded document of user 1: either summarized at upload
\* or left FAILED by it.
InitRace ==
  /\ \E r \in {[summary |-> <<"x">>, status |-> COMPLETED],
               [summary |-> NULL, status |-> FAILED]} :
       docs = 1 :> [userId |-> 1, title |-> <<"q">>, extractedText |-> ShortText,
                    summary |-> r.summary, status |-> r.status]
  /\ nextId = 2
  /\ embeddings = << >>
  /\ started = 0
  /\ ai = NoCall
  /\ sessions = << >>
  /\ messages = << >>
  /\ proc = <<Idle, Idle>>
  /\ faulty = FALSE

NextRace ==
  \/ \E p \in Procs, u \in Users, d \in DocIds : StartSummarize(p, u, d)
  \/ \E p \in Procs : SummarizeUpdate(p)

SpecRace == InitRace /\ [][NextRace]_vars

\* ------------------------------------------------- ChatController.sendMessage
\* chatService.getSession: findFirst where id = sessionId and userId.
getSession(s, u) ==
  IF s \in DOMAIN sessions /\ sessions[s].userId = u THEN {sessions[s]} ELSE {}

\* The handler and ChatService.sendMessage up to the INSERT: getSession and
\* the 404, findUnique and its throw, chatWithDocument on what the two
\* providers do (g, o); a throw of either lands in the catch, which answers
\* 500.
StartSendMessage(p, u, s, c) ==
  /\ CanStart(p)
  /\ started' = started + 1
  /\ LET rec == [Idle EXCEPT !.op = "sendMessage", !.user = u,
                             !.sessionId = s, !.content = c]
     IN IF getSession(s, u) = {}
        THEN proc' = [proc EXCEPT ![p] = Done(rec, 404)]
        ELSE \E g \in ProviderOutcomes, o \in ProviderOutcomes :
               LET r == chatWithDocument(g, o).ret
               IN proc' = [proc EXCEPT ![p] =
                    IF r = THROW THEN Done([rec EXCEPT !.ret = THROW], 500)
                    ELSE [rec EXCEPT !.ret = r, !.pc = "createMessage"]]
  /\ UNCHANGED <<docs, nextId, embeddings, faulty, ai, sessions, messages>>

\* prisma.chatMessage.create({ sessionId, message: content, response });
\* session_id references chat_sessions(id).
SendCreate(p) ==
  /\ proc[p].pc = "createMessage"
  /\ \E ok \in DbOk :
       IF ok /\ proc[p].sessionId \in DOMAIN sessions
       THEN /\ messages' = Append(messages,
                 [sessionId |-> proc[p].sessionId, message |-> proc[p].content,
                  response |-> proc[p].ret])
            /\ proc' = [proc EXCEPT ![p].pc = "touch"]
       ELSE /\ proc' = [proc EXCEPT ![p] = Done(@, 500)]
            /\ UNCHANGED messages
  /\ UNCHANGED <<docs, nextId, embeddings, started, faulty, ai, sessions>>

\* prisma.chatSession.update({ updatedAt: new Date() }) and the answer; the
\* clock is the number of requests received so far.
SendTouch(p) ==
  /\ proc[p].pc = "touch"
  /\ \E ok \in DbOk :
       IF ok /\ proc[p].sessionId \in DOMAIN sessions
       THEN /\ sessions' = [sessions EXCEPT ![proc[p].sessionId].updatedAt = started]
            /\ proc' = [proc EXCEPT ![p] = Done(@, 200)]
       ELSE /\ proc' = [proc EXCEPT ![p] = Done(@, 500)]
            /\ UNCHANGED sessions
  /\ UNCHANGED <<docs, nextId, embeddings, started, faulty, ai, messages>>

\* Chat requests handled one at a time on a store that holds one document
\* of user 1, one or two chat sessions user 1 opened on it, and possibly a
\* message sent earlier in session 1; storage writes may or may not throw.
SessionIds == 1..MaxSessions

Contents == {<<"m">>}

InitChat ==
  /\ docs = 1 :> [userId |-> 1, title |-> <<"q">>, extractedText |-> ShortText,
                  summary |-> <<"x">>, status |-> COMPLETED]
  /\ nextId = 2
  /\ embeddings = << >>
  /\ \E n \in 1..(MaxSessions - 1) :
       sessions = [x \in 1..n |-> [userId |-> 1, documentId |-> 1, updatedAt |-> 0]]
  /\ \E k \in 0..1 :
       messages = [j \in 1..k |->
                     [sessionId |-> 1, message |-> <<"m">>, response |-> <<"x">>]]
  /\ started = 0
  /\ ai = NoCall
  /\ proc = <<Idle>>
  /\ faulty \in BOOLEAN

NextChat ==
  \/ \E p \in Procs, u \in Users, s \in SessionIds, c \in Contents :
       StartSendMessage(p, u, s, c)
  \/ \E p \in Procs : SendCreate(p)
  \/ \E p \in Procs : SendTouch(p)

SpecChat == InitChat /\ [][NextChat]_vars

\* ================================================================ claims
\* The slot that takes the request received in this step, and what it asks.
StartStep(p, op) ==
  /\ started' = started + 1
  /\ CanStart(p)
  /\ proc'[p].op = op

Exists(d) == d \in DOMAIN docs

\* A provider attempt counts as a success when it returned something that
\* is not blank.
Succeeded(r) == r # THROW /\ trim(r) # <<>>

\* ------------------------------------------------------------------- C1
\* C1, as stated: whenever Gemini throws or returns the empty string and
\* OpenRouter returns a non-empty string, summarizeText / chatWithDocument
\* return exactly OpenRouter's string and raise no error.
C1_AsStated ==
  (/\ ai.fn \in {"summarizeText", "chatWithDocument"}
   /\ Failed(ai.gem)
   /\ ai.opr # THROW /\ ai.opr # <<>>)
  => ai.ret = ai.opr /\ ai.ret # THROW

\* C1, amended: whenever Gemini throws or returns a blank string (empty once
\* trimmed) and OpenRouter returns a string that is not blank, the call
\* returns exactly OpenRouter's string, untrimmed, and raises no error.
C1_SecondProviderResultReturned ==
  (/\ ai.fn \in {"summarizeText", "chatWithDocument"}
   /\ ~Succeeded(ai.gem)
   /\ Succeeded(ai.opr))
  => ai.ret = ai.opr /\ ai.ret # THROW

C1_Witness ==
  /\ ai.fn = "chatWithDocument"
  /\ ai.gem = <<>>
  /\ ai.opr = <<" ", "y">>
  /\ ai.ret = <<" ", "y">>

C3_SummarizeFailureSetsFailed ==
  \A p \in Procs :
    (/\ proc[p].op = "summarize"
     /\ proc[p].pc = "done"
     /\ proc[p].ret = THROW
     /\ Exists(proc[p].doc))
    => docs[proc[p].doc].status = FAILED

\* ------------------------------------------------------------------- C4
\* C4: a generateEmbeddings run in which the embedding call of some chunk
\* failed ends with an error and the status FAILED, never COMPLETED.
C4_EmbeddingFailureFailsRun ==
  \A p \in Procs :
    (/\ proc[p].op = "embeddings"
     /\ proc[p].pc = "done"
     /\ proc[p].efail)
    => /\ proc[p].code = 500
       /\ Exists(proc[p].doc) => docs[proc[p].doc].status = FAILED

\* ------------------------------------------------------------------- C5
\* C5: an upload whose text extraction failed has still created a document,
\* with status FAILED and no extractedText, and has not called
\* summarizeText.
C5_ExtractionFailureKeepsRecord ==
  \A p \in Procs :
    (/\ proc[p].op = "upload"
     /\ proc[p].pc = "done"
     /\ proc[p].text = THROW)
    => /\ proc[p].ret = NONE
       /\ Exists(proc[p].doc)
       /\ docs[proc[p].doc].status = FAILED
       /\ docs[proc[p].doc].extractedText = NULL

\* ------------------------------------------------------------------- C6
\* The upload in slot p got a text out of the extractor.
Extracted(p) == proc[p].op = "upload" /\ proc[p].text \notin {NULL, THROW}

\* Between the INSERT and the status write of an upload.
Created(p) == Extracted(p) /\ proc[p].pc \in {"update", "catch"}

Completed(p) == Extracted(p) /\ proc[p].pc = "done"

\* The end of every upload whose extraction succeeded: summarizeText was
\* called and the stored status is COMPLETED with the returned summary, or
\* FAILED.
UploadOutcome(p) ==
  Completed(p) =>
    /\ Exists(proc[p].doc)
    /\ proc[p].ret # NONE
    /\ docs[proc[p].doc].status \in {COMPLETED, FAILED}
    /\ docs[proc[p].doc].status = COMPLETED =>
         docs[proc[p].doc].summary = proc[p].ret /\ proc[p].ret # THROW

FailureStep(p) ==
  /\ proc'[p] # proc[p]
  /\ \/ proc[p].pc = "catch"
     \/ /\ proc'[p].op \in {"summarize", "embeddings"}
        /\ proc'[p].pc = "done"
        /\ proc'[p].code = 500

C8_NoTextRejected ==
  [][\A p \in Procs :
       (/\ StartStep(p, "summarize")
        /\ findByUserIdAndDocumentId(proc'[p].user, proc'[p].doc) # {}
        /\ Falsy(docs[proc'[p].doc].extractedText))
       => /\ proc'[p].pc = "done"
          /\ proc'[p].code = 400
          /\ proc'[p].ret = NONE
          /\ UNCHANGED <<docs, embeddings>>]_vars

C8_Witness ==
  \E p \in Procs :
    /\ proc[p].op = "summarize"
    /\ proc[p].pc = "done"
    /\ proc[p].code = 400
    /\ proc[p].ret = NONE
    /\ Exists(proc[p].doc)
    /\ docs[proc[p].doc].extractedText = NULL
    /\ docs[proc[p].doc].status = COMPLETED

\* ------------------------------------------------------------------- C9
\* C9: a summarize request that found extracted text, whatever status it
\* read (FAILED included), and whose summarizeText call returned, goes on
\* to the update and ends 200 with the returned summary stored and the
\* status COMPLETED.
C9_SummarizeSuccessCompletes ==
  \A p \in Procs :
    (/\ proc[p].op = "summarize"
     /\ proc[p].ret \notin {NONE, THROW})
    => /\ proc[p].pc \in {"update", "done"}
       /\ proc[p].pc = "done" =>
            /\ proc[p].code = 200
            /\ Exists(proc[p].doc)
            /\ docs[proc[p].doc].summary = proc[p].ret
            /\ docs[proc[p].doc].status = COMPLETED

C9_Witness ==
  \E p \in Procs :
    /\ proc[p].op = "summarize"
    /\ proc[p].pc = "done"
    /\ proc[p].code = 200
    /\ proc[p].was = FAILED
    /\ docs[proc[p].doc].status = COMPLETED
    /\ docs[proc[p].doc].summary = proc[p].ret

\* ------------------------------------------------------------------ C10
\* The embedding rows stored for document d.
RowsOf(d) == SelectSeq(embeddings, LAMBDA r : r.documentId = d)

\* C10: when a generateEmbeddings run has ended well on a document all of
\* whose runs had every embedding call succeed, the document has exactly
\* the rows of one run: as many as chunkText yields, row k carrying chunk k,
\* so each chunkIndex once.
C10_RepeatedRunSameChunks ==
  \A p \in Procs :
    (/\ proc[p].op = "embeddings"
     /\ proc[p].pc = "done"
     /\ proc[p].code = 200
     /\ Exists(proc[p].doc)
     /\ \A k \in 1..Len(RowsOf(proc[p].doc)) : RowsOf(proc[p].doc)[k].embedding # <<>>)
    => LET rows == RowsOf(proc[p].doc)
           chunks == chunkText(docs[proc[p].doc].extractedText, chunkSize)
       IN /\ Len(rows) = Len(chunks)
          /\ \A k \in 1..Len(rows) :
               rows[k].chunkIndex = k - 1 /\ rows[k].chunkText = chunks[k]

\* ------------------------------------------------------------------ C11
\* C11, as stated: every chunk chunkText returns is no longer than the
\* chunk size, unless the chunk is a single sentence (it holds no
\* terminator) that alone exceeds the size.
C11_ChunkWithinSize ==
  ai.fn = "chunkText" =>
    \A k \in 1..Len(ai.chunks) :
      \/ Len(ai.chunks[k]) <= ai.size
      \/ \A j \in 1..Len(ai.chunks[k]) : ai.chunks[k][j] \notin Delims

\* ------------------------------------------------------------------ C12
\* sentences[a..b] joined with ". ", as the loop accumulates them.
RECURSIVE Join(_, _, _)
Join(sentences, a, b) ==
  IF a > b THEN <<>>
  ELSE IF a = b THEN sentences[a]
  ELSE Join(sentences, a, b - 1) \o <<".", " ">> \o sentences[b]

\* The chunks that cutting the sentences after the positions of cuts gives:
\* each group of consecutive sentences joined and trimmed.
Grouped(sentences, cuts) ==
  LET ends == SortedSeq(cuts \cup {Len(sentences)})
  IN [k \in 1..Len(ends) |->
        trim(Join(sentences, IF k = 1 THEN 1 ELSE ends[k - 1] + 1, ends[k]))]

\* C12: the chunks chunkText returns are non-empty and are, in order, the
\* non-empty sentences of the text cut into groups of whole consecutive
\* sentences (each group joined with ". " and trimmed): no sentence is
\* split, dropped, duplicated or reordered.
C12_ChunksAreSentenceGroups ==
  ai.fn = "chunkText" =>
    /\ \A k \in 1..Len(ai.chunks) : ai.chunks[k] # <<>>
    /\ IF ai.sentences = <<>>
       THEN ai.chunks = <<>>
       ELSE \E cuts \in SUBSET (1..(Len(ai.sentences) - 1)) :
              ai.chunks = Grouped(ai.sentences, cuts)

C12_Witness ==
  /\ ai.fn = "chunkText"
  /\ Len(ai.sentences) = 3
  /\ Len(ai.chunks) = 2
  /\ ai.sentences[1] # ai.sentences[2]

\* ------------------------------------------------------------------ C13
\* C13, as stated: the sample text with chunk size 30 gives the three
\* chunks "AAAA.", "BBBBBBBBBBBBBBBBBBBBBBBBBBB." and "CCCC.".
C13_AsStated ==
  (ai.fn = "chunkText" /\ ai.text = SampleText /\ ai.size = 30)
  => ai.chunks = <<Rep("A", 4) \o <<".">>, Rep("B", 27) \o <<".">>,
                   Rep("C", 4) \o <<".">> >>

\* C13, amended: the sample text with chunk size 30 gives exactly three
\* chunks, "AAAA", "BBBBBBBBBBBBBBBBBBBBBBBBBBB" and "CCCC": the sentences
\* without their terminators.
C13_SampleChunks ==
  (ai.fn = "chunkText" /\ ai.text = SampleText /\ ai.size = 30)
  => ai.chunks = <<Rep("A", 4), Rep("B", 27), Rep("C", 4)>>

C13_Witness ==
  /\ ai.fn = "chunkText"
  /\ ai.text = SampleText
  /\ ai.size = 30
  /\ Len(ai.chunks) = 3

\* ------------------------------------------------------------------ C14
Searched == ai.fn = "searchSimilarDocuments"

\* C14: a search returns only documents the searching user owns, each at
\* most once, and no more than limit of them.
C14_SearchOwnedDistinctBounded ==
  Searched =>
    /\ \A k \in 1..Len(ai.results) :
         /\ ai.results[k] \in DOMAIN docs
         /\ docs[ai.results[k]].userId = ai.userId
    /\ \A j, k \in 1..Len(ai.results) : ai.results[j] = ai.results[k] => j = k
    /\ Len(ai.results) <= ai.limit

\* A search cut by its limit, with a matching document of the other user
\* and a document that matches through two rows in the store.
C14_Witness ==
  /\ Searched
  /\ ai.limit = 2
  /\ Len(ai.results) = 2
  /\ \E d \in DOMAIN docs \ {ai.results[k] : k \in 1..2} :
       docs[d].userId = ai.userId /\ docs[d].title = <<"Q">>
  /\ \E k \in 1..Len(embeddings) :
       /\ docs[embeddings[k].documentId].userId # ai.userId
       /\ docs[embeddings[k].documentId].title = <<"Q">>
  /\ \E j, k \in 1..Len(embeddings) :
       /\ j # k
       /\ embeddings[j].documentId = embeddings[k].documentId
       /\ embeddings[j].documentId = ai.results[1]

\* ------------------------------------------------------------------ C15
\* A document matches a query when its title or its text contains the
\* query, letter case aside.
Matches(d, q) ==
  \/ Like(toLowerCase(docs[d].title), toLowerCase(q))
  \/ Like(toLowerCase(docs[d].extractedText), toLowerCase(q))

OwnedBy(u) == {d \in DOMAIN docs : docs[d].userId = u}

\* C15, as stated: when the searching user has five documents, three that
\* match the query and two that do not, a search with limit 5 returns
\* exactly the three matching documents, the newest first.
C15_ThreeOfFiveReturned ==
  (/\ Searched
   /\ ai.limit = 5
   /\ Cardinality(OwnedBy(ai.userId)) = 5
   /\ Cardinality({d \in OwnedBy(ai.userId) : Matches(d, ai.queryText)}) = 3)
  => ai.results =
       NewestFirst({d \in OwnedBy(ai.userId) : Matches(d, ai.queryText)})

\* ------------------------------------------------------------------ C16
\* C16: when deleteDocument has answered 200 the document is gone and no
\* embedding row, no chat session and no chat message refers to it: every
\* remaining message belongs to a remaining session, and no remaining
\* session or embedding row is bound to the deleted document.
C16_DeleteCascades ==
  \A p \in Procs :
    (proc[p].op = "delete" /\ proc[p].pc = "done" /\ proc[p].code = 200)
    => /\ ~Exists(proc[p].doc)
       /\ \A k \in 1..Len(embeddings) : embeddings[k].documentId # proc[p].doc
       /\ \A x \in DOMAIN sessions : sessions[x].documentId # proc[p].doc
       /\ \A k \in 1..Len(messages) :
            /\ messages[k].sessionId \in DOMAIN sessions
            /\ sessions[messages[k].sessionId].documentId # proc[p].doc

\* Document 1, which had embeddings, two sessions (ids 1 and 2) and their
\* messages, is deleted; document 2 keeps its session and message.
C16_Witness ==
  /\ proc[1].op = "delete" /\ proc[1].pc = "done" /\ proc[1].code = 200
  /\ proc[1].doc = 1
  /\ nextId = 3
  /\ DOMAIN docs = {2}
  /\ DOMAIN sessions = {3}
  /\ Len(messages) = 1
  /\ Len(embeddings) = 1

\* ------------------------------------------------------------------ C17
\* C17: a getDocument, deleteDocument, summarize or generateEmbeddings
\* request of a user for a document id that does not exist or belongs to
\* another user is answered 404 in the step that receives it, without a
\* summarizeText call or an embedding run, and with the documents and the
\* embedding rows unchanged.
C17_NotOwnedIsNotFound ==
  [][\A p \in Procs :
       (/\ \E op \in {"get", "delete", "summarize", "embeddings"} : StartStep(p, op)
        /\ ~(Exists(proc'[p].doc) /\ docs[proc'[p].doc].userId = proc'[p].user))
       => /\ proc'[p].pc = "done"
          /\ proc'[p].code = 404
          /\ proc'[p].ret = NONE
          /\ proc'[p].chunks = <<>>
          /\ UNCHANGED <<docs, embeddings>>]_vars

\* A generateEmbeddings request for a document of another user, answered 404.
C17_Witness ==
  \E p \in Procs :
    /\ proc[p].op = "embeddings"
    /\ proc[p].pc = "done"
    /\ proc[p].code = 404
    /\ Exists(proc[p].doc)
    /\ docs[proc[p].doc].userId # proc[p].user
    /\ ~Falsy(docs[proc[p].doc].extractedText)

\* ------------------------------------------------------------------ C18
\* C18, as stated: a step sets a document's status to FAILED only for a
\* request in which the providers of its operation all failed (summarizeText
\* exhausted both completion providers and threw, or the embedding provider
\* call of an embedding run failed); a request whose provider succeeded
\* never leaves FAILED, whatever else goes wrong in it.
C18_FailedOnlyWhenProvidersFailed ==
  [][\A d \in DOMAIN docs :
       (d \in DOMAIN docs' /\ docs'[d].status = FAILED /\ docs[d].status # FAILED)
       => \E p \in Procs :
            /\ proc'[p] # proc[p]
            /\ proc[p].doc = d
            /\ proc[p].ret = THROW \/ proc[p].efail]_vars

\* ------------------------------------------------------------------ C19
\* C19, as stated: in every state a document whose status is COMPLETED has
\* a non-empty summary and a non-empty extractedText.
C19_CompletedHasSummaryAndText ==
  \A d \in DOMAIN docs :
    docs[d].status = COMPLETED
    => ~Falsy(docs[d].summary) /\ ~Falsy(docs[d].extractedText)

\* ------------------------------------------------------------------ C20
\* C20, as stated: when the embedding provider call fails (it throws),
\* generateEmbedding raises an error and returns no value.
C20_EmbeddingFailureRaises ==
  (ai.fn = "generateEmbedding" /\ ai.opr = THROW) => ai.ret = THROW

\* ------------------------------------------------------------------ C21
\* C21: generateKeywords never raises, and when each provider call throws
\* or returns an empty response it returns the empty list.
C21_KeywordsNeverRaise ==
  ai.fn = "generateKeywords" =>
    /\ ai.ret # THROW
    /\ (Failed(ai.gem) /\ Failed(ai.opr)) => ai.ret = <<>>

C21_Witness ==
  /\ ai.fn = "generateKeywords"
  /\ ai.gem = THROW
  /\ ai.opr = THROW
  /\ ai.ret = <<>>

\* ------------------------------------------------------------------ C22
Orchestrated == ai.fn \in {"summarizeText", "chatWithDocument", "generateKeywords"}

\* C22, as stated: every invocation asks Gemini first, whatever the
\* invocation before it came to, asks OpenRouter only when Gemini threw or
\* returned the empty string in this invocation, and asks no provider twice.
C22_AsStated ==
  Orchestrated =>
    /\ ai.calls \in {<<"gemini">>, <<"gemini", "openrouter">>}
    /\ Len(ai.calls) = 2 => Failed(ai.gem)

\* C22, amended: every invocation asks Gemini first, whatever the
\* invocation before it came to, asks OpenRouter exactly when Gemini threw
\* or returned a blank result (empty once trimmed) in this invocation, and
\* asks no provider twice.
C22_ProviderOrder ==
  Orchestrated =>
    /\ ai.calls \in {<<"gemini">>, <<"gemini", "openrouter">>}
    /\ Len(ai.calls) = 2 <=> ~Succeeded(ai.gem)

\* An invocation that follows a failed one and is served by Gemini alone.
C22_Witness ==
  /\ ai.fn = "chatWithDocument"
  /\ ai.prev = THROW
  /\ ai.calls = <<"gemini">>
  /\ ai.opr = THROW

\* ------------------------------------------------------------------ C23
\* C23: with summarize requests in flight together, every change of a
\* document is the single update of one request, which stores that
\* request's summary and the status COMPLETED together over whatever was
\* there (the last write wins): a stored summary written by summarize is
\* always one a request produced, and it comes with COMPLETED.
C23_LastWriteWins ==
  [][/\ \A p \in Procs :
          (/\ proc[p].op = "summarize" /\ proc[p].pc = "update"
           /\ proc'[p].pc = "done" /\ proc'[p].code = 200)
          => /\ proc[p].ret \notin {NONE, THROW}
             /\ docs' = [docs EXCEPT ![proc[p].doc] =
                           [@ EXCEPT !.summary = proc[p].ret,
                                     !.status = COMPLETED]]
     /\ \A d \in DOMAIN docs :
          (d \in DOMAIN docs' /\ docs'[d] # docs[d])
          => \E p \in Procs :
               /\ proc[p].op = "summarize" /\ proc[p].pc = "update"
               /\ proc[p].doc = d
               /\ proc'[p].pc = "done" /\ proc'[p].code = 200]_vars

\* Two requests on document 1 overlapped (the second took slot 2 while the
\* first held slot 1), produced different summaries, both answered 200, and
\* the stored summary is that of the request that arrived first: it wrote
\* last.
C23_Witness ==
  /\ started = 2
  /\ \A p \in {1, 2} :
       /\ proc[p].op = "summarize" /\ proc[p].doc = 1
       /\ proc[p].pc = "done" /\ proc[p].code = 200
  /\ proc[1].ret # proc[2].ret
  /\ docs[1].summary = proc[1].ret
  /\ docs[1].status = COMPLETED

\* ------------------------------------------------------------------ C24
\* C24: when a generateEmbeddings run has answered 200 and the document's
\* rows are as many as the run's chunks (it had none before the run), the
\* rows are, in order, one per chunk of chunkText(extractedText, 1000),
\* row i carrying chunkIndex i (from 0) and that chunk as its chunkText.
C24_OneRowPerChunk ==
  \A p \in Procs :
    (/\ proc[p].op = "embeddings" /\ proc[p].pc = "done" /\ proc[p].code = 200
     /\ Exists(proc[p].doc)
     /\ Len(RowsOf(proc[p].doc)) <= Len(proc[p].chunks))
    => LET chunks == chunkText(docs[proc[p].doc].extractedText, chunkSize)
           rows == RowsOf(proc[p].doc)
       IN /\ Len(rows) = Len(chunks)
          /\ \A k \in 1..Len(rows) :
               /\ rows[k].chunkIndex = k - 1
               /\ rows[k].chunkText = chunks[k]

\* A first run on a document whose text makes two chunks.
C24_Witness ==
  \E p \in Procs :
    /\ proc[p].op = "embeddings" /\ proc[p].pc = "done" /\ proc[p].code = 200
    /\ Len(proc[p].chunks) = 2
    /\ Len(RowsOf(proc[p].doc)) = 2

\* ------------------------------------------------------------------ C25
\* C25, as stated: when an embedding run fails in its loop after it has
\* inserted rows (the step for some chunk k > 0 fails), the rows of the
\* document are again those it had before the run: the rows the run
\* inserted, the last proc[p].i of the document, are gone.
C25_FailedRunLeavesNoRows ==
  [][\A p \in Procs :
       (/\ proc[p].op = "embeddings" /\ proc[p].pc = "embed" /\ proc[p].i > 0
        /\ proc'[p].pc = "done" /\ proc'[p].code = 500)
       => Len(SelectSeq(embeddings', LAMBDA r : r.documentId = proc[p].doc))
            = Len(RowsOf(proc[p].doc)) - proc[p].i]_vars

\* ------------------------------------------------------------------ C26
\* The rows of document d hold chunk k (counted from 0) of chunks.
Stored(d, chunks, k) ==
  \E j \in 1..Len(embeddings) :
    /\ embeddings[j].documentId = d
    /\ embeddings[j].chunkIndex = k
    /\ embeddings[j].chunkText = chunks[k + 1]

\* C26: an embedding run writes COMPLETED only from the step after its
\* loop, when the embedding call of every chunk has returned and every
\* chunk's row is stored: while the run is still in its loop it has written
\* no status, and when it has answered 200 no chunk of it is missing.
C26_CompletedAfterAllChunks ==
  [][\A p \in Procs :
       (/\ proc[p].op = "embeddings"
        /\ proc'[p].op = "embeddings"
        /\ proc[p].pc \in {"genFind", "embed", "genComplete"}
        /\ proc[p].doc \in DOMAIN docs'
        /\ proc[p].doc \in DOMAIN docs
        /\ docs'[proc[p].doc].status = COMPLETED
        /\ docs'[proc[p].doc] # docs[proc[p].doc])
       => /\ proc[p].pc = "genComplete"
          /\ proc[p].i = Len(proc[p].chunks)
          /\ \A k \in 0..(Len(proc[p].chunks) - 1) :
               Stored(proc[p].doc, proc[p].chunks, k)]_vars

\* A run on a two-chunk text that has answered 200.
C26_Witness ==
  \E p \in Procs :
    /\ proc[p].op = "embeddings" /\ proc[p].pc = "done" /\ proc[p].code = 200
    /\ Len(proc[p].chunks) = 2
    /\ docs[proc[p].doc].status = COMPLETED

\* ------------------------------------------------------------------ C27
\* C27: in every step a document that stays in the table keeps its status,
\* or goes from PENDING to COMPLETED or FAILED, or goes between COMPLETED
\* and FAILED; a document that enters the table enters it PENDING.  So no
\* document is ever PROCESSING and none returns to PENDING.
C27_StatusChanges ==
  [][\A d \in DOMAIN docs' :
       IF d \in DOMAIN docs
       THEN \/ docs'[d].status = docs[d].status
            \/ /\ docs[d].status = PENDING
               /\ docs'[d].status \in {COMPLETED, FAILED}
            \/ {docs[d].status, docs'[d].status} = {COMPLETED, FAILED}
       ELSE docs'[d].status = PENDING]_vars

\* A document that was summarized, so was COMPLETED, and that a failed
\* embedding run then left FAILED.
C27_Witness ==
  \E p \in Procs :
    /\ proc[p].op = "embeddings" /\ proc[p].pc = "done" /\ proc[p].code = 500
    /\ proc[p].doc \in DOMAIN docs
    /\ docs[proc[p].doc].summary # NULL
    /\ docs[proc[p].doc].status = FAILED

C29_MessageAfterResponse ==
  [][/\ (messages' # messages \/ sessions' # sessions) =>
          \E p \in Procs :
            /\ proc[p].op = "sendMessage"
            /\ proc[p].ret \notin {THROW, NONE, <<>>}
            /\ \/ /\ proc[p].pc = "createMessage"
                  /\ messages' = Append(messages,
                        [sessionId |-> proc[p].sessionId,
                         message |-> proc[p].content,
                         response |-> proc[p].ret])
                  /\ sessions' = sessions
               \/ /\ proc[p].pc = "touch"
                  /\ messages' = messages
                  /\ messages[Len(messages)].response = proc[p].ret
                  /\ sessions' = [sessions EXCEPT
                                    ![proc[p].sessionId].updatedAt = started]
     /\ \A p \in Procs :
          (proc'[p].op = "sendMessage" /\ proc'[p].ret = THROW)
          => messages' = messages /\ sessions' = sessions
     /\ \A j \in 1..Len(messages') : messages'[j].response # <<>>]_vars

\* A request of the session's owner in which Gemini failed and OpenRouter
\* answered: the message is stored with that answer and the session touched.
C29_Witness ==
  \E p \in Procs :
    /\ proc[p].op = "sendMessage" /\ proc[p].pc = "done" /\ proc[p].code = 200
    /\ proc[p].ret = <<" ", "y">>
    /\ messages[Len(messages)].response = <<" ", "y">>
    /\ sessions[proc[p].sessionId].updatedAt = started

\* ------------------------------------------------------------------ C30
\* C30: a document that has a summary keeps one for as long as it is in the
\* table: no step of upload, summarize or generateEmbeddings leaves the
\* summary of such a document null or empty, and no stored summary is ever
\* the empty string.
C30_SummaryStays ==
  [][\A d \in DOMAIN docs' :
       /\ docs'[d].summary # <<>>
       /\ (d \in DOMAIN docs /\ docs[d].summary # NULL)
          => /\ docs'[d].summary # NULL
             /\ trim(docs'[d].summary) # <<>>]_vars

\* A document with a summary on which an embedding run failed: the catch
\* wrote FAILED through update and the summary is still there.
C30_Witness ==
  \E d \in DOMAIN docs :
    /\ docs[d].summary = <<" ", "y">>
    /\ docs[d].status = FAILED
    /\ \E p \in Procs :
         /\ proc[p].op = "embeddings" /\ proc[p].pc = "done" /\ proc[p].doc = d
         /\ proc[p].code = 500

====
